---- MODULE Spec2Model ----
(***************************************************************************)
(* Model of the caching package of firehose-to-syslog: the three Caching   *)
(* backends (CachingBolt, CachingMemory, CachingEmpty), the read-through   *)
(* getEntity, the three-hop GetApp and the bulk preload FillCache.         *)
(*                                                                         *)
(* Strings are sequences of one-character strings, so that UUID parsing,   *)
(* key building and path building are computed as the code computes them.  *)
(***************************************************************************)
EXTENDS Integers, Sequences, FiniteSets, TLC

\* ------------------------------------------------------------------------
\* Strings
\* ------------------------------------------------------------------------
Rep(c, n) == [i \in 1..n |-> c]

EmptyString == << >>

S_apps == <<"a","p","p","s">>
S_spaces == <<"s","p","a","c","e","s">>
S_organizations == <<"o","r","g","a","n","i","z","a","t","i","o","n","s">>
S_v2 == <<"/","v","2","/">>

\* strings.HasSuffix(s, suffix)
HasSuffix(s, suffix) ==
    /\ Len(s) >= Len(suffix)
    /\ SubSeq(s, Len(s) - Len(suffix) + 1, Len(s)) = suffix

\* ------------------------------------------------------------------------
\* uuid.FromString / UUID.String (github.com/satori/go.uuid), as called at
\* the head of getEntity and in FillCache.  A UUID value is its 32 nibbles.
\* ------------------------------------------------------------------------
HexLower == <<"0","1","2","3","4","5","6","7","8","9","a","b","c","d","e","f">>
HexUpper == <<"0","1","2","3","4","5","6","7","8","9","A","B","C","D","E","F">>

\* encoding/hex: the value of each hexadecimal digit, of either case
HexChars == {HexLower[i] : i \in 1..16} \cup {HexUpper[i] : i \in 1..16}
HexTable == [c \in HexChars |->
                CHOOSE v \in 0..15 : HexLower[v + 1] = c \/ HexUpper[v + 1] = c]
IsHex(c) == c \in HexChars
HexVal(c) == HexTable[c]
AllHex(t) == \A i \in 1..Len(t) : IsHex(t[i])

UuidErr == [err |-> TRUE, u |-> << >>]

decodeHashLike(t) ==
    IF AllHex(t) THEN [err |-> FALSE, u |-> [i \in 1..32 |-> HexVal(t[i])]]
    ELSE UuidErr

decodeCanonical(t) ==
    IF t[9] # "-" \/ t[14] # "-" \/ t[19] # "-" \/ t[24] # "-" THEN UuidErr
    ELSE decodeHashLike(SubSeq(t, 1, 8) \o SubSeq(t, 10, 13) \o SubSeq(t, 15, 18)
                        \o SubSeq(t, 20, 23) \o SubSeq(t, 25, 36))

decodePlain(t) ==
    CASE Len(t) = 32 -> decodeHashLike(t)
      [] Len(t) = 36 -> decodeCanonical(t)
      [] OTHER -> UuidErr

decodeBraced(t) ==
    IF t[1] # "{" \/ t[Len(t)] # "}" THEN UuidErr
    ELSE decodePlain(SubSeq(t, 2, Len(t) - 1))

UrnPrefix == <<"u","r","n",":","u","u","i","d",":">>

decodeURN(t) ==
    IF SubSeq(t, 1, 9) # UrnPrefix THEN UuidErr
    ELSE decodePlain(SubSeq(t, 10, Len(t)))

FromString(text) ==
    CASE Len(text) = 32 -> decodeHashLike(text)
      [] Len(text) = 36 -> decodeCanonical(text)
      [] Len(text) = 38 -> decodeBraced(text)
      [] Len(text) = 41 \/ Len(text) = 45 -> decodeURN(text)
      [] OTHER -> UuidErr

\* UUID.String(): the canonical lowercase hyphenated form
UuidString(u) ==
    LET h == [i \in 1..32 |-> HexLower[u[i] + 1]]
    IN SubSeq(h, 1, 8) \o <<"-">> \o SubSeq(h, 9, 12) \o <<"-">> \o SubSeq(h, 13, 16)
       \o <<"-">> \o SubSeq(h, 17, 20) \o <<"-">> \o SubSeq(h, 21, 32)

\* Mutant of Canonicalise: the guid is validated but used as given
\* (uuid := guid instead of uuid := u.String())
Canonicalise_raw(guid) ==
    IF FromString(guid).err THEN [err |-> TRUE, uuid |-> EmptyString]
    ELSE [err |-> FALSE, uuid |-> guid]

\* u, err := uuid.FromString(guid); uuid := u.String()
Canonicalise(guid) ==
    LET u == FromString(guid)
    IN IF u.err THEN [err |-> TRUE, uuid |-> EmptyString]
       ELSE [err |-> FALSE, uuid |-> UuidString(u.u)]

\* "is a canonical lowercase hyphenated UUID", stated on the characters
\* (independently of FromString)
IsCanonicalGuid(s) ==
    /\ Len(s) = 36
    /\ \A i \in 1..36 :
          IF i \in {9, 14, 19, 24} THEN s[i] = "-"
          ELSE \E v \in 1..16 : HexLower[v] = s[i]

\* ------------------------------------------------------------------------
\* Bounds of the model and program constants
\* ------------------------------------------------------------------------
\* time.Now() ranges over StartTime..MaxTime; the zero time.Time is 0
MaxTime == 6
\* rand.Float64() ranges over {0/JitterDen, ..., (JitterDen-1)/JitterDen}
JitterDen == 2
\* a list walk reads at most MaxPages pages
MaxPages == 2
\* the goroutines calling one handle; each makes one call
NCallers == 2
\* config.CacheInvalidateTTL, a time.Duration: a whole number of clock units
\* (nanoseconds), here one that 0.75 does not multiply to a whole number
CacheInvalidateTTL == 3
\* http.StatusOK
StatusOK == 200

\* the zero time.Time
ZeroTime == 0

\* Open / Close calls made on one handle
MaxCalls == 4
\* longest name and longest suffix list handed to the normaliser directly
MaxNameLen == 3
MaxSuffixes == 2
\* ------------------------------------------------------------------------
\* type entity
\* ------------------------------------------------------------------------
JsonString(s) == [t |-> "string", s |-> s]
JsonObject == [t |-> "object", s |-> ""]
JsonNil == [t |-> "nil", s |-> ""]

\* Environment is a set of (key, value) pairs with distinct keys
EnvGet(env, k) ==
    IF \E p \in env : p.k = k THEN (CHOOSE p \in env : p.k = k).v ELSE JsonNil

ZeroEntity ==
    [Name |-> EmptyString, SpaceGUID |-> EmptyString, OrganizationGUID |-> EmptyString,
     Environment |-> {}, TTL |-> ZeroTime]

\* a *entity: nil, or a pointer to the value v
NilPtr == [nil |-> TRUE, v |-> ZeroEntity]
Ptr(e) == [nil |-> FALSE, v |-> e]

appIsOptOut(e) == EnvGet(e.Environment, "F2S_DISABLE_LOGGING") = JsonString("true")

\* ------------------------------------------------------------------------
\* The identifiers and remote records the model draws its inputs from
\* ------------------------------------------------------------------------
GuidOf(c) == Rep(c, 8) \o <<"-">> \o Rep(c, 4) \o <<"-">> \o Rep(c, 4) \o <<"-">>
             \o Rep(c, 4) \o <<"-">> \o Rep(c, 12)

GuidA == GuidOf("a")
GuidAUpper == GuidOf("A")
GuidABraced == <<"{">> \o GuidOf("A") \o <<"}">>
GuidB == GuidOf("b")
GuidSUpper == GuidOf("C")
GuidS == GuidOf("c")
GuidO == GuidOf("d")
\* strings that are no UUID: the empty string, a path fragment, and a string
\* of the right length and shape with a non-hexadecimal digit
BadShort == <<".",".","/","x">>
BadHex == GuidOf("g")

RawGuids == {GuidABraced, BadShort, BadHex}

NameApp == <<"n","-","v">>
NameApp2 == <<"m">>
NameSpace == <<"s">>
NameOrg == <<"o","1">>
SuffixV == <<"-","v">>

\* the "entity" objects a remote response may carry (TTL is not part of the JSON)
EApp1 == [Name |-> NameApp, SpaceGUID |-> GuidSUpper, OrganizationGUID |-> EmptyString,
          Environment |-> {[k |-> "F2S_DISABLE_LOGGING", v |-> JsonString("true")]},
          TTL |-> ZeroTime]
EApp2 == [Name |-> NameApp2, SpaceGUID |-> BadShort, OrganizationGUID |-> EmptyString,
          Environment |-> {}, TTL |-> ZeroTime]
EApp3 == [Name |-> NameApp2, SpaceGUID |-> GuidS, OrganizationGUID |-> EmptyString,
          Environment |-> {[k |-> "NESTED", v |-> JsonObject]}, TTL |-> ZeroTime]
ESpace == [Name |-> NameSpace, SpaceGUID |-> EmptyString, OrganizationGUID |-> GuidO,
           Environment |-> {}, TTL |-> ZeroTime]
EOrg == [Name |-> NameOrg, SpaceGUID |-> EmptyString, OrganizationGUID |-> EmptyString,
         Environment |-> {}, TTL |-> ZeroTime]

\* the records the remote may hold for an entity type
RemoteEntities(entityType) ==
    CASE entityType = S_apps -> {EApp1, EApp2, EApp3}
      [] entityType = S_spaces -> {ESpace}
      [] OTHER -> {EOrg}

\* One HTTP exchange: DoRequestWithoutRedirects fails (err), or answers with a
\* status and a body that decodes as JSON or not; a decoded single-entity body
\* carries an "entity" object or none
RespReqErr == [err |-> TRUE, status |-> 0, decodes |-> FALSE, entity |-> NilPtr]
RespStatus(code) == [err |-> FALSE, status |-> code, decodes |-> TRUE, entity |-> NilPtr]
RespBadJSON == [err |-> FALSE, status |-> StatusOK, decodes |-> FALSE, entity |-> NilPtr]
RespNoEntity == [err |-> FALSE, status |-> StatusOK, decodes |-> TRUE, entity |-> NilPtr]
RespEntity(e) == [err |-> FALSE, status |-> StatusOK, decodes |-> TRUE, entity |-> Ptr(e)]

Responses(entityType) ==
    {RespReqErr, RespStatus(404), RespStatus(500), RespBadJSON, RespNoEntity}
    \cup {RespEntity(e) : e \in RemoteEntities(entityType)}

Jitters == 0..(JitterDen - 1)

\* A list exchange: as above, and a decoded body carries next_url and the
\* resources, each a metadata guid and an "entity" object or null
ListFail(r) == [err |-> r.err, status |-> r.status, decodes |-> r.decodes,
                next |-> EmptyString, resources |-> << >>]
ListPage(next, resources) ==
    [err |-> FALSE, status |-> StatusOK, decodes |-> TRUE, next |-> next,
     resources |-> resources]
Resource(guid, e) == [guid |-> guid, entity |-> e]

S_results == <<"?","r","e","s","u","l","t","s","-","p","e","r","-","p","a","g","e","=",
               "1","0","0">>
Digits == <<"1","2","3","4","5","6","7","8","9">>

\* the URL of the n-th page of the app list: the first is the one
\* fetchEntityListFromAPI starts from, the others are the cursors the remote
\* hands out
PageURL(n) ==
    IF n = 1 THEN S_v2 \o S_apps \o S_results
    ELSE S_v2 \o S_apps \o <<"?","p","a","g","e","=", Digits[n]>>

\* the page a list URL addresses
PageOf(url) == CHOOSE n \in 1..MaxPages : PageURL(n) = url

\* the pages the remote may answer a request to url with: one with a cursor
\* (the URL of the page after it), unless the list ends there, and last
\* pages (empty cursor)
CursorPages(url) ==
    IF PageOf(url) < MaxPages
    THEN {ListPage(PageURL(PageOf(url) + 1), <<Resource(GuidB, Ptr(EApp2))>>)}
    ELSE {}
LastPages ==
    {ListPage(EmptyString, <<Resource(GuidAUpper, Ptr(EApp1))>>),
     ListPage(EmptyString, <<Resource(BadShort, Ptr(EApp1))>>),
     ListPage(EmptyString, <<Resource(GuidAUpper, NilPtr)>>),
     ListPage(EmptyString, << >>)}
ListFailures == {ListFail(RespReqErr), ListFail(RespStatus(500)), ListFail(RespBadJSON)}

\* what the remote may answer to the list request to url
ListResponses(url) == ListFailures \cup LastPages \cup CursorPages(url)

\* ------------------------------------------------------------------------
\* Pure parts of CachingBolt
\* ------------------------------------------------------------------------
\* A cache is a function from keys (strings) to entity values.
Put(cache, key, e) ==
    [k \in (DOMAIN cache) \cup {key} |-> IF k = key THEN e ELSE cache[k]]

makeBoltKey(entityType, uuid) == entityType \o <<"/">> \o uuid

\* the entity types getEntity is called with
Kinds == {S_apps, S_spaces, S_organizations}

\* fmt.Sprintf("/v2/%s/%s", entityType, guid)
EntityPath(entityType, guid) == S_v2 \o entityType \o <<"/">> \o guid

\* Mutant of makeRequestAndDecodeJSON: the status code is not checked
makeRequestAndDecodeJSON_nostatus(resp) ==
    IF resp.err THEN "request"
    ELSE IF ~resp.decodes THEN "json"
    ELSE ""

\* makeRequestAndDecodeJSON: "" is the nil error
makeRequestAndDecodeJSON(resp) ==
    IF resp.err THEN "request"
    ELSE IF resp.status # StatusOK THEN "status"
    ELSE IF ~resp.decodes THEN "json"
    ELSE ""

\* fetchEntityFromAPI: (md.Entity, nil) or (nil, err)
fetchEntityFromAPI(resp) ==
    LET err == makeRequestAndDecodeJSON(resp)
    IN IF err # "" THEN [nv |-> NilPtr, err |-> err]
       ELSE [nv |-> resp.entity, err |-> ""]

\* Mutant of StripFirstSuffix: the loop goes on after a match (no break)
RECURSIVE StripEverySuffix(_, _)
StripEverySuffix(name, suffixes) ==
    IF suffixes = << >> THEN name
    ELSE IF HasSuffix(name, Head(suffixes))
         THEN StripEverySuffix(SubSeq(name, 1, Len(name) - Len(Head(suffixes))),
                               Tail(suffixes))
         ELSE StripEverySuffix(name, Tail(suffixes))

\* the suffix loop of normaliseAndSaveEntityToDatabase: the first suffix of
\* the configured list that the name ends with is cut off, once
RECURSIVE StripFirstSuffix(_, _)
StripFirstSuffix(name, suffixes) ==
    IF suffixes = << >> THEN name
    ELSE IF HasSuffix(name, Head(suffixes))
         THEN SubSeq(name, 1, Len(name) - Len(Head(suffixes)))
         ELSE StripFirstSuffix(name, Tail(suffixes))

\* time.Duration(float64(TTL.Nanoseconds()) * (0.75 + rand.Float64()/2.0)),
\* with rand.Float64() = jit / JitterDen; the conversion truncates
JitteredTTL(jit) ==
    (CacheInvalidateTTL * (3 * JitterDen + 2 * jit)) \div (4 * JitterDen)

\* gob cannot encode an interface value of an unregistered type (a nested
\* JSON object decoded into map[string]interface{})
gobEncodes(e) == \A p \in e.Environment : p.v.t # "object"

\* normaliseAndSaveEntityToDatabase up to the Update transaction: the suffix
\* loop, the TTL stamp (time.Now() giving t, rand drawing jit) and the gob
\* encoding of nv.  A nil nv is dereferenced (the call crashes).
normaliseEntity(suffixes, entityType, nv, t, jit) ==
    IF nv.nil
    THEN [panicked |-> TRUE, nv |-> nv, err |-> ""]
    ELSE LET name == IF entityType = S_apps THEN StripFirstSuffix(nv.v.Name, suffixes)
                     ELSE nv.v.Name
             e == [nv.v EXCEPT !.Name = name, !.TTL = t + JitteredTTL(jit)]
         IN [panicked |-> FALSE, nv |-> Ptr(e),
             err |-> IF gobEncodes(e) THEN "" ELSE "gob"]

NoResp == [err |-> FALSE, status |-> 0, decodes |-> FALSE, entity |-> NilPtr]

\* rv.TTL.Before(time.Now()): the expiry test of getEntity
TTLBeforeNow(ttl, t) == ttl < t

\* uuid.FromString and UUID.String on every guid that can reach getEntity or
\* FillCache here, computed once
KnownGuids ==
    RawGuids \cup {EmptyString}
    \cup {e.SpaceGUID : e \in RemoteEntities(S_apps)}
    \cup {e.OrganizationGUID : e \in RemoteEntities(S_spaces)}
    \cup UNION {{lr.resources[i].guid : i \in 1..Len(lr.resources)} :
                   lr \in CursorPages(PageURL(1)) \cup LastPages}
CanonTable == [g \in KnownGuids |-> Canonicalise(g)]

\* ------------------------------------------------------------------------
\* State
\* ------------------------------------------------------------------------
VARIABLES
    backend,            \* which Caching implementation: "bolt", "memory", "empty"
    ignoreMissingApps,  \* config.IgnoreMissingApps
    stripAppSuffixes,   \* config.StripAppSuffixes (CachingBolt only)
    cache,              \* the bucket AppBucketV2 / the map entityCache
    now,                \* the clock read by time.Now()
    appdb,              \* c.appdb, the *bolt.DB: "nil", "open" or "closed"
    mu,                 \* cm.entityCacheLock: 0 when unlocked, else the caller holding it
    th,                 \* the callers of the handle: where each is, and its locals
    lifecycle,          \* the Open and Close calls made so far, with what they returned
    norm                \* the direct calls of normaliseAndSaveEntityToDatabase: what
                        \* each caller passed and got back

vars == <<backend, ignoreMissingApps, stripAppSuffixes, cache, now, appdb, mu, th,
          lifecycle, norm>>

\* the configuration, which no operation changes
config == <<backend, ignoreMissingApps, stripAppSuffixes>>

Callers == 1..NCallers

ZeroApp ==
    [Guid |-> EmptyString, Name |-> EmptyString, SpaceGuid |-> EmptyString,
     SpaceName |-> EmptyString, OrgGuid |-> EmptyString, OrgName |-> EmptyString,
     IgnoredApp |-> FALSE]

\* One caller.  pc is where it is:
\*   "start"    it has not called yet
\*   "view"     CachingBolt.getEntity, at c.appdb.View(...)
\*   "test"     CachingBolt.getEntity, the View has found rv; at the expiry test
\*   "lock"     CachingMemory.getEntity, at cm.entityCacheLock.Lock()
\*   "read"     CachingMemory.getEntity, holding the lock, at the map lookup
\*   "request"  getEntity, its request with the remote
\*   "decode"   getEntity, the request has returned resp
\*   "update"   normaliseAndSaveEntityToDatabase, nv stamped and encoded; at
\*              c.appdb.Update(...)
\*   "list"     fetchEntityListFromAPI, a page request with the remote
\*   "fill"     FillCache, at the head of its loop over allApps
\*   "done"     its call has returned
\* op is the call it made; appGuid, entityType, guid, uuid, rv, nv, app,
\* space, url, allApps, resp are the locals of that name; pages counts the list
\* pages read, todo are the guids the loop over allApps has yet to visit,
\* stored the app keys it has saved.  When the call has returned, t is "app"
\* (an App, nil error), "err" (an error), "nil" (nil App, nil error), "ok"
\* (nil error of FillCache or of a save), "panic" (the call crashed), and ret
\* and err are what it returned, entityType the getEntity call it last
\* made and guid its argument, and the other locals are gone.  after are the
\* callers whose calls had returned when this one was made.
NoThread ==
    [pc |-> "start", op |-> "none", appGuid |-> EmptyString,
     entityType |-> EmptyString, guid |-> EmptyString, uuid |-> EmptyString,
     rv |-> NilPtr, nv |-> NilPtr, app |-> ZeroEntity, space |-> ZeroEntity,
     url |-> EmptyString, pages |-> 0, allApps |-> << >>, todo |-> {}, stored |-> {},
     resp |-> NoResp, after |-> {}, t |-> "none", ret |-> ZeroApp, err |-> ""]

\* one call of Open or Close: t is "ok" (nil error), "err" or "panic"
Called(op, t) == [op |-> op, t |-> t]

\* no call of normaliseAndSaveEntityToDatabase on its own has been made
NoNorm == [called |-> FALSE, entityType |-> EmptyString, name |-> EmptyString,
           out |-> NilPtr, err |-> ""]

\* the records an earlier GetApp of app A has left in the store, with the
\* expiry of each
Stored(e, ttl) == [e EXCEPT !.TTL = ttl]
StoreOf(app, appTTL, spaceTTL, orgTTL) ==
    LET c1 == Put(<< >>, makeBoltKey(S_apps, GuidA), Stored(app, appTTL))
        c2 == Put(c1, makeBoltKey(S_spaces, GuidS), Stored(ESpace, spaceTTL))
    IN Put(c2, makeBoltKey(S_organizations, GuidO), Stored(EOrg, orgTTL))

\* the clock when the callers arrive
StartTime == MaxTime - 1

\* the expiry of the records of a warm store: they expire as the callers
\* arrive (at StartTime the expiry has not passed, a moment later it has)
WarmTTLs == {StartTime}

WarmStores(b) ==
    LET app == IF b = "bolt"
               THEN [EApp1 EXCEPT !.Name = StripFirstSuffix(EApp1.Name, <<SuffixV>>)]
               ELSE EApp1
    IN { StoreOf(app, ttl, ttl, ttl) : ttl \in WarmTTLs }

Init ==
    /\ backend \in {"bolt", "memory", "empty"}
    /\ ignoreMissingApps \in BOOLEAN
    /\ stripAppSuffixes = (IF backend = "bolt" THEN <<SuffixV>> ELSE << >>)
    /\ now = StartTime
    /\ \/ cache = << >>
       \/ backend # "empty" /\ cache \in WarmStores(backend)
    /\ appdb = (IF backend = "bolt" THEN "open" ELSE "nil")
    /\ mu = 0
    /\ th = [c \in Callers |-> NoThread]
    /\ lifecycle = << Called("Open", "ok") >>
    /\ norm = [c \in Callers |-> NoNorm]

\* ------------------------------------------------------------------------
\* GetApp and getSpaceAndOrg: what a caller does between two getEntity calls
\* ------------------------------------------------------------------------
\* what a caller keeps of a record getEntity returned: GetApp reads its
\* Name, SpaceGUID, OrganizationGUID and Environment and never its TTL;
\* FillCache drops what getSpaceAndOrg returns
Kept(t, e) == IF t.op = "GetApp" THEN [e EXCEPT !.TTL = ZeroTime] ELSE ZeroEntity

\* the App assembled at the end of GetApp
AssembleApp(appGuid, app, space, org) ==
    [Guid |-> appGuid, Name |-> app.Name, SpaceGuid |-> app.SpaceGUID,
     SpaceName |-> space.Name, OrgGuid |-> space.OrganizationGUID, OrgName |-> org.Name,
     IgnoredApp |-> appIsOptOut(app)]

\* the call of caller t returns
Finish(t, kind, ret, err) ==
    [NoThread EXCEPT !.pc = "done", !.op = t.op, !.appGuid = t.appGuid,
                     !.entityType = t.entityType, !.guid = t.guid,
                     !.pages = t.pages, !.stored = t.stored, !.after = t.after,
                     !.t = kind, !.ret = ret, !.err = err]

\* the call of caller t crashes
Panic(t) == Finish(t, "panic", ZeroApp, "")

\* getEntity(entityType, guid) is entered: its locals
Begin(t, entityType, guid) ==
    [t EXCEPT !.entityType = entityType, !.guid = guid, !.uuid = CanonTable[guid].uuid,
              !.rv = NilPtr, !.nv = NilPtr, !.resp = NoResp]

\* where getEntity first touches the store
FirstPc == IF backend = "memory" THEN "lock" ELSE "view"

\* getEntity("organizations", ...) has returned (rv, err): GetApp returns
\* the App; FillCache goes on with its next app, or returns nil
AfterOrg(t, rv, err) ==
    IF err # "" /\ ~ignoreMissingApps
    THEN Finish(t, "err", ZeroApp, err)
    ELSE LET org == IF err # "" THEN ZeroEntity ELSE rv.v
         IN IF t.op = "GetApp"
            THEN Finish(t, "app", AssembleApp(t.appGuid, t.app, t.space, org), "")
            ELSE IF t.todo = {}
            THEN Finish(t, "ok", ZeroApp, "")
            ELSE [t EXCEPT !.pc = "fill", !.rv = NilPtr, !.nv = NilPtr]

\* org, err := getEntity("organizations", guid): u, err := uuid.FromString(guid)
\* at its head either returns the error or lets the lookup begin
EnterOrg(t, guid) ==
    LET s == Begin(t, S_organizations, guid)
    IN IF CanonTable[guid].err THEN AfterOrg(s, NilPtr, "uuid")
       ELSE [s EXCEPT !.pc = FirstPc]

\* Mutant of AfterSpace: the error of the space lookup is always replaced by
\* an empty record
AfterSpace_lenient(t, rv, err) ==
    LET space == IF err # "" THEN ZeroEntity ELSE rv.v
    IN EnterOrg([t EXCEPT !.space = Kept(t, space)], space.OrganizationGUID)

\* getEntity("spaces", ...) has returned (rv, err), in GetApp (CachingMemory)
\* and in getSpaceAndOrg (CachingBolt, called by GetApp and by FillCache)
AfterSpace(t, rv, err) ==
    IF err # "" /\ ~ignoreMissingApps
    THEN Finish(t, "err", ZeroApp, err)
    ELSE LET space == IF err # "" THEN ZeroEntity ELSE rv.v
         IN EnterOrg([t EXCEPT !.space = Kept(t, space)], space.OrganizationGUID)

\* space, err := getEntity("spaces", guid)
EnterSpace(t, guid) ==
    LET s == Begin(t, S_spaces, guid)
    IN IF CanonTable[guid].err THEN AfterSpace(s, NilPtr, "uuid")
       ELSE [s EXCEPT !.pc = FirstPc]

\* Mutant of AfterApp: the error of the app lookup is returned even when
\* IgnoreMissingApps is set
AfterApp_strict(t, rv, err) ==
    IF err # ""
    THEN Finish(t, "err", ZeroApp, err)
    ELSE EnterSpace([t EXCEPT !.app = Kept(t, rv.v)], rv.v.SpaceGUID)

\* getEntity("apps", appGuid) has returned (rv, err) to GetApp
AfterApp(t, rv, err) ==
    IF err # "" /\ ~ignoreMissingApps
    THEN Finish(t, "err", ZeroApp, err)
    ELSE LET app == IF err # "" THEN ZeroEntity ELSE rv.v
         IN EnterSpace([t EXCEPT !.app = Kept(t, app)], app.SpaceGUID)

\* app, err := getEntity("apps", appGuid)
EnterApp(t, guid) ==
    LET s == Begin(t, S_apps, guid)
    IN IF CanonTable[guid].err THEN AfterApp(s, NilPtr, "uuid")
       ELSE [s EXCEPT !.pc = FirstPc]

\* getEntity returns (rv, err) to its caller, which goes on up to its next
\* access to the store, the clock or the remote
AfterGetEntity(t, rv, err) ==
    CASE t.entityType = S_apps -> AfterApp(t, rv, err)
      [] t.entityType = S_spaces -> AfterSpace(t, rv, err)
      [] OTHER -> AfterOrg(t, rv, err)

\* a crash (a nil pointer dereferenced) ends the process
Running ==
    /\ \A c \in Callers : th[c].t # "panic"
    /\ \A i \in 1..Len(lifecycle) : lifecycle[i].t # "panic"

\* caller c is in its call, at pc
At(c, pc) == Running /\ th[c].pc = pc

\* callers are numbered in the order of their calls
MayCall(c) ==
    /\ At(c, "start")
    /\ c > 1 => th[c - 1].pc # "start"

\* the call op of a caller, as it is made
Call(op) == [NoThread EXCEPT !.op = op,
                             !.after = {d \in Callers : th[d].pc = "done"}]

\* the request of getEntity is sent
Request(t) == [t EXCEPT !.pc = "request"]

\* ------------------------------------------------------------------------
\* CachingBolt: no lock is held across getEntity, so each access to the
\* bucket, to the clock and to the remote is a step of its own
\* ------------------------------------------------------------------------
\* GetApp(appGuid) is called, up to the View transaction of its first
\* getEntity
CachingBolt_GetApp(c) ==
    /\ backend = "bolt"
    /\ MayCall(c)
    /\ \E appGuid \in RawGuids :
          th' = [th EXCEPT ![c] = EnterApp([Call("GetApp") EXCEPT !.appGuid = appGuid],
                                            appGuid)]
    /\ UNCHANGED <<config, cache, now, appdb, mu, lifecycle, norm>>

\* err = c.appdb.View(...): the record under the key is decoded into rv, or
\* errNotFound is returned and the request is sent; on a closed handle View
\* returns an error, which getEntity returns; a nil handle is dereferenced
CachingBolt_getEntity_View(c) ==
    /\ backend = "bolt"
    /\ At(c, "view")
    /\ LET key == makeBoltKey(th[c].entityType, th[c].uuid)
       IN th' = [th EXCEPT ![c] =
                    IF appdb = "nil" THEN Panic(@)
                    ELSE IF appdb = "closed" THEN AfterGetEntity(@, NilPtr, "view")
                    ELSE IF key \in DOMAIN cache
                    THEN [@ EXCEPT !.pc = "test", !.rv = Ptr(cache[key])]
                    ELSE Request(@)]
    /\ UNCHANGED <<config, cache, now, appdb, mu, lifecycle, norm>>

\* case nil: if rv.TTL.Before(time.Now()) { return &rv, nil }; else the
\* request is sent
CachingBolt_getEntity_Test(c) ==
    /\ backend = "bolt"
    /\ At(c, "test")
    /\ th' = [th EXCEPT ![c] =
                 IF TTLBeforeNow(@.rv.v.TTL, now) THEN AfterGetEntity(@, @.rv, "")
                 ELSE Request(@)]
    /\ UNCHANGED <<config, cache, now, appdb, mu, lifecycle, norm>>

\* c.client.DoRequestWithoutRedirects(...) returns in makeRequestAndDecodeJSON
CachingBolt_makeRequestAndDecodeJSON(c) ==
    /\ backend = "bolt"
    /\ At(c, "request")
    /\ \E resp \in Responses(th[c].entityType) :
          th' = [th EXCEPT ![c] = [@ EXCEPT !.pc = "decode", !.resp = resp]]
    /\ UNCHANGED <<config, cache, now, appdb, mu, lifecycle, norm>>

\* Mutant of CachingBolt_getEntity_Fetched: a request that failed is sent
\* again
CachingBolt_getEntity_Fetched_retry(c) ==
    /\ backend = "bolt"
    /\ At(c, "decode")
    /\ LET f == fetchEntityFromAPI(th[c].resp)
           t == [th[c] EXCEPT !.resp = NoResp]
       IN IF f.err # ""
          THEN th' = [th EXCEPT ![c] = Request(t)]
          ELSE \E jit \in IF f.nv.nil THEN {0} ELSE Jitters :
                  LET s == normaliseEntity(stripAppSuffixes, t.entityType, f.nv, now, jit)
                  IN th' = [th EXCEPT ![c] =
                               IF s.panicked THEN Panic(t)
                               ELSE IF s.err # "" THEN AfterGetEntity(t, NilPtr, s.err)
                               ELSE [t EXCEPT !.pc = "update", !.nv = s.nv]]
    /\ UNCHANGED <<config, cache, now, appdb, mu, lifecycle, norm>>

\* nv, err := c.fetchEntityFromAPI(entityType, uuid) has its response: an
\* error is returned, or for an app with IgnoreMissingApps replaced by
\* &entity{}; then normaliseAndSaveEntityToDatabase strips the name, stamps
\* the TTL at the clock of that moment and encodes nv
CachingBolt_getEntity_Fetched(c) ==
    /\ backend = "bolt"
    /\ At(c, "decode")
    /\ LET f == fetchEntityFromAPI(th[c].resp)
           sub == f.err # "" /\ th[c].entityType = S_apps /\ ignoreMissingApps
           nv == IF sub THEN Ptr(ZeroEntity) ELSE f.nv
           t == [th[c] EXCEPT !.resp = NoResp]
       IN IF f.err # "" /\ ~sub
          THEN th' = [th EXCEPT ![c] = AfterGetEntity(t, NilPtr, f.err)]
          ELSE \E jit \in IF nv.nil THEN {0} ELSE Jitters :
                  LET s == normaliseEntity(stripAppSuffixes, t.entityType, nv, now, jit)
                  IN th' = [th EXCEPT ![c] =
                               IF s.panicked THEN Panic(t)
                               ELSE IF s.err # "" THEN AfterGetEntity(t, NilPtr, s.err)
                               ELSE [t EXCEPT !.pc = "update", !.nv = s.nv]]
    /\ UNCHANGED <<config, cache, now, appdb, mu, lifecycle, norm>>

\* the save of caller t has returned err: getEntity returns (nv, err) to
\* GetApp or getSpaceAndOrg; FillCache goes on to getSpaceAndOrg(app.SpaceGUID);
\* a direct call returns
AfterSave(t, err) ==
    IF t.op = "normalise"
    THEN Finish(t, IF err # "" THEN "err" ELSE "ok", ZeroApp, err)
    ELSE IF t.op = "FillCache" /\ t.entityType = S_apps
    THEN IF err # "" THEN Finish(t, "err", ZeroApp, err)
         ELSE EnterSpace([t EXCEPT !.stored = @ \cup {makeBoltKey(S_apps, t.uuid)}],
                         t.nv.v.SpaceGUID)
    ELSE AfterGetEntity(t, IF err # "" THEN NilPtr ELSE t.nv, err)

\* err = c.appdb.Update(... Put(makeBoltKey(entityType, uuid), b.Bytes()) ...):
\* the transaction commits, or fails (always on a closed handle); a nil
\* handle is dereferenced
CachingBolt_normaliseAndSaveEntityToDatabase_Update(c) ==
    /\ backend = "bolt"
    /\ At(c, "update")
    /\ \E upd \in BOOLEAN :
          IF appdb = "nil"
          THEN /\ th' = [th EXCEPT ![c] = Panic(@)]
               /\ cache' = cache
               /\ norm' = norm
          ELSE IF appdb = "closed" \/ ~upd
          THEN /\ th' = [th EXCEPT ![c] = AfterSave(@, "update")]
               /\ cache' = cache
               /\ norm' = IF th[c].op = "normalise" THEN [norm EXCEPT ![c].err = "update"]
                          ELSE norm
          ELSE /\ th' = [th EXCEPT ![c] = AfterSave(@, "")]
               /\ cache' = Put(cache, makeBoltKey(th[c].entityType, th[c].uuid),
                               th[c].nv.v)
               /\ norm' = norm
    /\ UNCHANGED <<config, now, appdb, mu, lifecycle>>

\* ------------------------------------------------------------------------
\* FillCache (CachingBolt)
\* ------------------------------------------------------------------------
\* for _, r := range md.Resources { rv[r.Metadata.GUID] = r.Entity }
RECURSIVE AddResources(_, _)
AddResources(rv, resources) ==
    IF resources = << >> THEN rv
    ELSE AddResources(Put(rv, Head(resources).guid, Head(resources).entity),
                      Tail(resources))

\* FillCache() is called: fetchEntityListFromAPI("apps") sends its first
\* request
CachingBolt_FillCache(c) ==
    /\ backend = "bolt"
    /\ MayCall(c)
    /\ th' = [th EXCEPT ![c] = [Call("FillCache") EXCEPT !.pc = "list",
                                                  !.url = PageURL(1)]]
    /\ UNCHANGED <<config, cache, now, appdb, mu, lifecycle, norm>>

\* Mutant of CachingBolt_FillCache_page: when a page fails, the apps of the
\* pages already read are stored before the error is returned
CachingBolt_FillCache_page_partial(c) ==
    /\ backend = "bolt"
    /\ At(c, "list")
    /\ \E lr \in ListResponses(th[c].url) :
          LET err == makeRequestAndDecodeJSON(lr)
              rv == AddResources(th[c].allApps, lr.resources)
          IN /\ th' = [th EXCEPT ![c] =
                    IF err # "" THEN Finish(@, "err", ZeroApp, err)
                    ELSE IF lr.next # EmptyString
                    THEN [@ EXCEPT !.url = lr.next, !.pages = @ + 1, !.allApps = rv]
                    ELSE IF DOMAIN rv = {}
                    THEN Finish([@ EXCEPT !.pages = @ + 1], "ok", ZeroApp, "")
                    ELSE [@ EXCEPT !.pc = "fill", !.pages = @ + 1, !.allApps = rv,
                                   !.todo = DOMAIN rv]]
             /\ cache' = IF err = "" THEN cache
                         ELSE [k \in DOMAIN cache \cup
                                       {makeBoltKey(S_apps, CanonTable[g].uuid) :
                                           g \in DOMAIN th[c].allApps}
                                  |-> IF k \in DOMAIN cache THEN cache[k] ELSE ZeroEntity]
    /\ UNCHANGED <<config, now, appdb, mu, lifecycle, norm>>

\* one turn of the loop of fetchEntityListFromAPI: the page request
\* returns; FillCache returns when the walk ends with an error or with no
\* app at all
CachingBolt_FillCache_page(c) ==
    /\ backend = "bolt"
    /\ At(c, "list")
    /\ \E lr \in ListResponses(th[c].url) :
          LET err == makeRequestAndDecodeJSON(lr)
              rv == AddResources(th[c].allApps, lr.resources)
          IN /\ th' = [th EXCEPT ![c] =
                    IF err # "" THEN Finish(@, "err", ZeroApp, err)
                    ELSE IF lr.next # EmptyString
                    THEN [@ EXCEPT !.url = lr.next, !.pages = @ + 1, !.allApps = rv]
                    ELSE IF DOMAIN rv = {}
                    THEN Finish([@ EXCEPT !.pages = @ + 1], "ok", ZeroApp, "")
                    ELSE [@ EXCEPT !.pc = "fill", !.pages = @ + 1, !.allApps = rv,
                                   !.todo = DOMAIN rv]]
             /\ cache' = cache
    /\ UNCHANGED <<config, now, appdb, mu, lifecycle, norm>>

\* the head of one turn of FillCache's loop over allApps (a Go map: any
\* order): the guid is canonicalised, and normaliseAndSaveEntityToDatabase
\* strips the app's name, stamps its TTL and encodes it
CachingBolt_FillCache_app(c) ==
    /\ backend = "bolt"
    /\ At(c, "fill")
    /\ \E guid \in th[c].todo :
          LET u == CanonTable[guid]
              app == th[c].allApps[guid]
              t == [Begin(th[c], S_apps, guid) EXCEPT !.todo = @ \ {guid}]
          IN IF u.err
             THEN th' = [th EXCEPT ![c] = Finish(t, "err", ZeroApp, "uuid")]
             ELSE \E jit \in IF app.nil THEN {0} ELSE Jitters :
                     LET s == normaliseEntity(stripAppSuffixes, S_apps, app, now, jit)
                     IN th' = [th EXCEPT ![c] =
                                  IF s.panicked THEN Panic(t)
                                  ELSE IF s.err # "" THEN Finish(t, "err", ZeroApp, s.err)
                                  ELSE [t EXCEPT !.pc = "update", !.nv = s.nv]]
    /\ UNCHANGED <<config, cache, now, appdb, mu, lifecycle, norm>>

\* ------------------------------------------------------------------------
\* CachingMemory: getEntity holds entityCacheLock from its lookup to its
\* return
\* ------------------------------------------------------------------------
\* GetApp(appGuid) is called, up to the Lock of its first getEntity
CachingMemory_GetApp(c) ==
    /\ backend = "memory"
    /\ MayCall(c)
    /\ \E appGuid \in RawGuids :
          th' = [th EXCEPT ![c] = EnterApp([Call("GetApp") EXCEPT !.appGuid = appGuid],
                                            appGuid)]
    /\ UNCHANGED <<config, cache, now, appdb, mu, lifecycle, norm>>

\* Mutant of CachingMemory_getEntity_Lock: a lock that does not wait
CachingMemory_getEntity_Lock_nowait(c) ==
    /\ backend = "memory"
    /\ At(c, "lock")
    /\ mu' = c
    /\ th' = [th EXCEPT ![c].pc = "read"]
    /\ UNCHANGED <<config, cache, now, appdb, lifecycle, norm>>

\* cm.entityCacheLock.Lock(); defer cm.entityCacheLock.Unlock()
CachingMemory_getEntity_Lock(c) ==
    /\ backend = "memory"
    /\ At(c, "lock")
    /\ mu = 0
    /\ mu' = c
    /\ th' = [th EXCEPT ![c].pc = "read"]
    /\ UNCHANGED <<config, cache, now, appdb, lifecycle, norm>>

\* the deferred Unlock, run when getEntity returns
Unlock(c) == IF mu = c THEN 0 ELSE mu

\* rv, found := cm.entityCache[key]; if found && rv.TTL.Before(time.Now())
\* { return rv, nil }; else the request is sent
CachingMemory_getEntity_Read(c) ==
    /\ backend = "memory"
    /\ At(c, "read")
    /\ LET key == th[c].entityType \o <<"/">> \o th[c].uuid
       IN IF key \in DOMAIN cache /\ TTLBeforeNow(cache[key].TTL, now)
          THEN /\ th' = [th EXCEPT ![c] = AfterGetEntity(@, Ptr(cache[key]), "")]
               /\ mu' = Unlock(c)
          ELSE /\ th' = [th EXCEPT ![c] = Request(@)]
               /\ mu' = mu
    /\ UNCHANGED <<config, cache, now, appdb, lifecycle, norm>>

\* resp, err := cm.client.DoRequestWithoutRedirects(...) returns
CachingMemory_getEntity_DoRequest(c) ==
    /\ backend = "memory"
    /\ At(c, "request")
    /\ \E resp \in Responses(th[c].entityType) :
          th' = [th EXCEPT ![c] = [@ EXCEPT !.pc = "decode", !.resp = resp]]
    /\ UNCHANGED <<config, cache, now, appdb, mu, lifecycle, norm>>

\* Mutant of CachingMemory_getEntity_Decode: the error returns do not unlock
CachingMemory_getEntity_Decode_held(c) ==
    /\ backend = "memory"
    /\ At(c, "decode")
    /\ LET resp == th[c].resp
           err == IF resp.err THEN "request"
                  ELSE IF resp.status # StatusOK THEN "status"
                  ELSE IF ~resp.decodes THEN "json"
                  ELSE ""
           key == th[c].entityType \o <<"/">> \o th[c].uuid
           e == [resp.entity.v EXCEPT !.TTL = now + CacheInvalidateTTL]
           t == [th[c] EXCEPT !.resp = NoResp]
       IN IF err # ""
          THEN /\ th' = [th EXCEPT ![c] = AfterGetEntity(t, NilPtr, err)]
               /\ cache' = cache
               /\ mu' = mu
          ELSE /\ th' = [th EXCEPT ![c] = AfterGetEntity(t, Ptr(e), "")]
               /\ cache' = Put(cache, key, e)
               /\ mu' = Unlock(c)
    /\ UNCHANGED <<config, now, appdb, lifecycle, norm>>

\* the error of the request is returned; the status is checked and the body
\* decoded: a status other than 200 or a body that does not decode make
\* getEntity return the error; else
\* md.Entity (a value: the zero entity when the body has none) is stamped
\* with the TTL at the clock of that moment, stored and returned.  The lock
\* is released on return.
CachingMemory_getEntity_Decode(c) ==
    /\ backend = "memory"
    /\ At(c, "decode")
    /\ LET resp == th[c].resp
           err == IF resp.err THEN "request"
                  ELSE IF resp.status # StatusOK THEN "status"
                  ELSE IF ~resp.decodes THEN "json"
                  ELSE ""
           key == th[c].entityType \o <<"/">> \o th[c].uuid
           e == [resp.entity.v EXCEPT !.TTL = now + CacheInvalidateTTL]
           t == [th[c] EXCEPT !.resp = NoResp]
       IN IF err # ""
          THEN /\ th' = [th EXCEPT ![c] = AfterGetEntity(t, NilPtr, err)]
               /\ cache' = cache
               /\ mu' = Unlock(c)
          ELSE /\ th' = [th EXCEPT ![c] = AfterGetEntity(t, Ptr(e), "")]
               /\ cache' = Put(cache, key, e)
               /\ mu' = Unlock(c)
    /\ UNCHANGED <<config, now, appdb, lifecycle, norm>>

\* ------------------------------------------------------------------------
\* CachingEmpty
\* ------------------------------------------------------------------------
\* Mutant of CachingEmpty_GetApp: return &App{}, nil
CachingEmpty_GetApp_app(c) ==
    /\ backend = "empty"
    /\ MayCall(c)
    /\ \E appGuid \in RawGuids :
          th' = [th EXCEPT ![c] = Finish([Call("GetApp") EXCEPT !.appGuid = appGuid],
                                         "app", ZeroApp, "")]
    /\ UNCHANGED <<config, cache, now, appdb, mu, lifecycle, norm>>

\* CachingEmpty.GetApp: return nil, nil
CachingEmpty_GetApp(c) ==
    /\ backend = "empty"
    /\ MayCall(c)
    /\ \E appGuid \in RawGuids :
          th' = [th EXCEPT ![c] = Finish([Call("GetApp") EXCEPT !.appGuid = appGuid],
                                         "nil", ZeroApp, "")]
    /\ UNCHANGED <<config, cache, now, appdb, mu, lifecycle, norm>>

\* CachingEmpty.FillCache: return nil
CachingEmpty_FillCache(c) ==
    /\ backend = "empty"
    /\ MayCall(c)
    /\ th' = [th EXCEPT ![c] = Finish(Call("FillCache"), "ok", ZeroApp, "")]
    /\ UNCHANGED <<config, cache, now, appdb, mu, lifecycle, norm>>

\* ------------------------------------------------------------------------
\* The clock, and the specification
\* ------------------------------------------------------------------------
\* time passes, at any moment
Tick ==
    /\ now < MaxTime
    /\ now' = now + 1
    /\ UNCHANGED <<config, cache, appdb, mu, th, lifecycle, norm>>

Next ==
    \/ \E c \in Callers : CachingBolt_GetApp(c)
    \/ \E c \in Callers : CachingBolt_getEntity_View(c)
    \/ \E c \in Callers : CachingBolt_getEntity_Test(c)
    \/ \E c \in Callers : CachingBolt_makeRequestAndDecodeJSON(c)
    \/ \E c \in Callers : CachingBolt_getEntity_Fetched(c)
    \/ \E c \in Callers : CachingBolt_normaliseAndSaveEntityToDatabase_Update(c)
    \/ \E c \in Callers : CachingBolt_FillCache(c)
    \/ \E c \in Callers : CachingBolt_FillCache_page(c)
    \/ \E c \in Callers : CachingBolt_FillCache_app(c)
    \/ \E c \in Callers : CachingMemory_GetApp(c)
    \/ \E c \in Callers : CachingMemory_getEntity_Lock(c)
    \/ \E c \in Callers : CachingMemory_getEntity_Read(c)
    \/ \E c \in Callers : CachingMemory_getEntity_DoRequest(c)
    \/ \E c \in Callers : CachingMemory_getEntity_Decode(c)
    \/ \E c \in Callers : CachingEmpty_GetApp(c)
    \/ \E c \in Callers : CachingEmpty_FillCache(c)
    \/ Tick

Spec == Init /\ [][Next]_vars


\* ------------------------------------------------------------------------
\* normaliseAndSaveEntityToDatabase on its own: any record name, any
\* configured suffix list
\* ------------------------------------------------------------------------
NameChars == {"a", "-", "v"}
Names == UNION {[1..n -> NameChars] : n \in 0..MaxNameLen}
\* the suffixes a configuration may list (the empty string among them)
Suffixes == {EmptyString, <<"v">>, <<"-","v">>, <<"a","-","v">>}
SuffixLists == UNION {[1..n -> Suffixes] : n \in 0..MaxSuffixes}

NormInit ==
    /\ backend = "bolt"
    /\ ignoreMissingApps = FALSE
    /\ stripAppSuffixes \in SuffixLists
    /\ now = StartTime
    /\ cache = << >>
    /\ appdb = "open"
    /\ mu = 0
    /\ th = [c \in Callers |-> NoThread]
    /\ lifecycle = << Called("Open", "ok") >>
    /\ norm = [c \in Callers |-> NoNorm]

\* c.normaliseAndSaveEntityToDatabase(entityType, uuid, nv) is called, once,
\* for a record nv named name: up to the Update transaction
CachingBolt_normaliseAndSaveEntityToDatabase(c) ==
    /\ backend = "bolt"
    /\ MayCall(c)
    /\ \A d \in Callers : th[d].pc = "start"
    /\ \E entityType \in Kinds, name \in Names, jit \in Jitters :
          LET s == normaliseEntity(stripAppSuffixes, entityType,
                                   Ptr([ZeroEntity EXCEPT !.Name = name]), now, jit)
          IN /\ th' = [th EXCEPT ![c] =
                          [Call("normalise") EXCEPT !.pc = "update",
                                                    !.entityType = entityType,
                                                    !.guid = GuidA, !.uuid = GuidA,
                                                    !.nv = s.nv]]
             /\ norm' = [norm EXCEPT ![c] =
                            [called |-> TRUE, entityType |-> entityType, name |-> name,
                             out |-> s.nv, err |-> s.err]]
    /\ UNCHANGED <<config, cache, now, appdb, mu, lifecycle>>

NormNext ==
    \/ \E c \in Callers : CachingBolt_normaliseAndSaveEntityToDatabase(c)
    \/ \E c \in Callers : CachingBolt_normaliseAndSaveEntityToDatabase_Update(c)
    \/ Tick

NormSpec == NormInit /\ [][NormNext]_vars

\* ------------------------------------------------------------------------
\* Open and Close
\* ------------------------------------------------------------------------
LifeInit ==
    /\ backend \in {"bolt", "memory", "empty"}
    /\ ignoreMissingApps \in BOOLEAN
    /\ stripAppSuffixes = (IF backend = "bolt" THEN <<SuffixV>> ELSE << >>)
    /\ now = StartTime
    /\ cache = << >>
    /\ appdb = "nil"
    /\ mu = 0
    /\ th = [c \in Callers |-> NoThread]
    /\ lifecycle = << >>
    /\ norm = [c \in Callers |-> NoNorm]

\* the process has not crashed, no lookup is running, and one more call of
\* Open or Close may be made
Alive ==
    /\ Running
    /\ Len(lifecycle) < MaxCalls
    /\ \A c \in Callers : th[c].pc \in {"start", "done"}

LifeFrame == UNCHANGED <<config, cache, now, mu, th, norm>>

\* CachingBolt.Open: bolt.Open fails (always when the handle in c.appdb still
\* holds the file lock: the second flock times out), leaving c.appdb as it
\* was; or it succeeds, c.appdb is set, and creating the bucket fails or
\* succeeds
CachingBolt_Open ==
    /\ backend = "bolt"
    /\ Alive
    /\ \E outcome \in IF appdb = "open" THEN {"file"} ELSE {"file", "bucket", "ok"} :
          /\ appdb' = IF outcome = "file" THEN appdb ELSE "open"
          /\ lifecycle' = Append(lifecycle,
                                 Called("Open", IF outcome = "ok" THEN "ok" ELSE "err"))
    /\ LifeFrame

\* CachingBolt.Close: return c.appdb.Close(); DB.Close locks db.rwlock first,
\* a nil-pointer dereference when c.appdb is nil; closing a closed DB
\* returns nil
CachingBolt_Close ==
    /\ backend = "bolt"
    /\ Alive
    /\ IF appdb = "nil"
       THEN /\ appdb' = appdb
            /\ lifecycle' = Append(lifecycle, Called("Close", "panic"))
       ELSE /\ appdb' = "closed"
            /\ lifecycle' = Append(lifecycle, Called("Close", "ok"))
    /\ LifeFrame

\* CachingMemory.Open: return nil
CachingMemory_Open ==
    /\ backend = "memory"
    /\ Alive
    /\ lifecycle' = Append(lifecycle, Called("Open", "ok"))
    /\ appdb' = appdb
    /\ LifeFrame

\* CachingMemory.Close: return nil
CachingMemory_Close ==
    /\ backend = "memory"
    /\ Alive
    /\ lifecycle' = Append(lifecycle, Called("Close", "ok"))
    /\ appdb' = appdb
    /\ LifeFrame

\* CachingEmpty.Open: return nil
CachingEmpty_Open ==
    /\ backend = "empty"
    /\ Alive
    /\ lifecycle' = Append(lifecycle, Called("Open", "ok"))
    /\ appdb' = appdb
    /\ LifeFrame

\* CachingEmpty.Close: return nil
CachingEmpty_Close ==
    /\ backend = "empty"
    /\ Alive
    /\ lifecycle' = Append(lifecycle, Called("Close", "ok"))
    /\ appdb' = appdb
    /\ LifeFrame

\* CachingBolt.GetApp is called on a handle that is not open: before Open
\* has succeeded c.appdb is nil, after Close the View transaction fails
CachingBolt_GetApp_notOpen(c) ==
    /\ appdb # "open"
    /\ CachingBolt_GetApp(c)

LifeNext ==
    \/ CachingBolt_Open
    \/ CachingBolt_Close
    \/ \E c \in Callers : CachingBolt_GetApp_notOpen(c)
    \/ \E c \in Callers : CachingBolt_getEntity_View(c)
    \/ CachingMemory_Open
    \/ CachingMemory_Close
    \/ CachingEmpty_Open
    \/ CachingEmpty_Close
    \/ Tick

LifeSpec == LifeInit /\ [][LifeNext]_vars

\* ------------------------------------------------------------------------
\* CachingMemory alone, and its callers scheduled fairly
\* ------------------------------------------------------------------------
ConcInit == Init /\ backend = "memory"

\* a step of caller c
ConcStep(c) ==
    \/ CachingMemory_GetApp(c)
    \/ CachingMemory_getEntity_Lock(c)
    \/ CachingMemory_getEntity_Read(c)
    \/ CachingMemory_getEntity_DoRequest(c)
    \/ CachingMemory_getEntity_Decode(c)

ConcNext ==
    \/ \E c \in Callers : ConcStep(c)
    \/ Tick

ConcSpec == ConcInit /\ [][ConcNext]_vars

\* every caller that can take a step takes one in the end: the scheduler is
\* fair to goroutines, sync.Mutex hands the lock to a waiter, and every
\* request returns
ConcFairSpec == ConcSpec /\ \A c \in Callers : WF_vars(ConcStep(c))

\* ------------------------------------------------------------------------
\* Properties
\* ------------------------------------------------------------------------
\* caller c takes the step
Stepped(c) == th'[c] # th[c]

\* the key of the getEntity call caller c is in
KeyOf(c) == th[c].entityType \o <<"/">> \o th[c].uuid

\* caller c is at the expiry test of getEntity with a stored record found
AtExpiryTest(c) ==
    \/ backend = "bolt" /\ th[c].pc = "test"
    \/ backend = "memory" /\ th[c].pc = "read" /\ KeyOf(c) \in DOMAIN cache

\* the record it found, and its expiry
FoundRecord(c) == IF backend = "bolt" THEN th[c].rv.v ELSE cache[KeyOf(c)]
FoundTTL(c) == FoundRecord(c).TTL

\* the step writes the record under key k
Written(k) ==
    /\ k \in DOMAIN cache'
    /\ k \notin DOMAIN cache \/ cache'[k] # cache[k]

\* the position of a getEntity call among GetApp's three
HopIndex(entityType) ==
    CASE entityType = EmptyString -> 0
      [] entityType = S_apps -> 1
      [] entityType = S_spaces -> 2
      [] OTHER -> 3

\* "<kind>/<guid>" with a canonical guid
IsCacheKey(k) ==
    \E kind \in Kinds :
        /\ Len(k) = Len(kind) + 37
        /\ SubSeq(k, 1, Len(kind)) = kind
        /\ k[Len(kind) + 1] = "/"
        /\ IsCanonicalGuid(SubSeq(k, Len(kind) + 2, Len(k)))

\* "/v2/<kind>/<guid>" with a canonical guid
IsEntityPath(path) ==
    /\ Len(path) > 4
    /\ SubSeq(path, 1, 4) = S_v2
    /\ IsCacheKey(SubSeq(path, 5, Len(path)))

\* the keys and paths that can be made of the guids at hand, as they are
\* given and in canonical form, and those of them that are well formed
KeyUniverse ==
    {makeBoltKey(kind, g) : kind \in Kinds, g \in KnownGuids \cup {GuidA, GuidB, GuidS, GuidO}}
CanonicalKeys == {k \in KeyUniverse : IsCacheKey(k)}
CanonicalPaths == {p \in {S_v2 \o k : k \in KeyUniverse} : IsEntityPath(p)}
\* the guids at hand that uuid.FromString rejects
BadGuids == {g \in KnownGuids : FromString(g).err}

\* the request failed: no response, a status other than 200, or a body that
\* does not decode
RequestFailure(r) == r.err \/ r.status # StatusOK \/ ~r.decodes

\* the same, a 404 answer excepted
TransportFailure(r) == r.err \/ (r.status # StatusOK /\ r.status # 404) \/ ~r.decodes

\* the error a failed request gives
ErrOf(r) ==
    IF r.err THEN "request" ELSE IF r.status # StatusOK THEN "status" ELSE "json"

\* d is between 0.75 and 1.25 times CacheInvalidateTTL
InWindow(d) == 4 * d >= 3 * CacheInvalidateTTL /\ 4 * d <= 5 * CacheInvalidateTTL

\* the record is the empty one GetApp puts in place of a missing app (no
\* remote record is empty)
IsSubstitute(e) == [e EXCEPT !.TTL = ZeroTime] = ZeroEntity

\* C1 (as claimed): a getEntity call that finds a stored record whose
\* expiry is strictly later than the current time returns that record as a
\* cache hit: it sends no remote request and writes nothing.
C1_FreshRecordIsHit ==
    [][\A c \in Callers :
          (AtExpiryTest(c) /\ Stepped(c) /\ FoundTTL(c) > now)
              => (th'[c].pc # "request" /\ cache' = cache)]_vars

\* C2 (as claimed): a getEntity call that finds a stored record whose expiry
\* has passed does not return it: it sends a remote request.
C2_StaleRecordIsRefetched ==
    [][\A c \in Callers :
          (AtExpiryTest(c) /\ Stepped(c) /\ FoundTTL(c) < now)
              => th'[c].pc = "request"]_vars

\* FillCache of caller d has returned nil after a walk of two pages
PreloadDone(d) ==
    /\ th[d].pc = "done"
    /\ th[d].op = "FillCache"
    /\ th[d].t = "ok"
    /\ th[d].pages = 2

\* C3 (as claimed): a GetApp made after FillCache has returned without
\* error from a two-page walk, for an app FillCache stored, finds the record
\* and, no stored record having expired, is answered without a remote
\* request.
C3_PreloadWarmsCache ==
    [][\A c \in Callers :
          (/\ th[c].op = "GetApp"
           /\ \E d \in th[c].after :
                 /\ PreloadDone(d)
                 /\ makeBoltKey(S_apps, CanonTable[th[c].appGuid].uuid) \in th[d].stored
           /\ AtExpiryTest(c)
           /\ Stepped(c)
           /\ \A k \in DOMAIN cache : cache[k].TTL > now
           /\ FoundTTL(c) > now)
              => th'[c].pc # "request"]_vars

\* the call of caller c has returned an error and no App
ReturnedError(t) == t.pc = "done" /\ t.t = "err" /\ t.err # "" /\ t.ret = ZeroApp

\* C4: with IgnoreMissingApps false, when the request of a hop of GetApp
\* fails, or the guid of a hop is no UUID, GetApp returns an error and no
\* App at once: the failing hop is the last getEntity call it makes, nothing
\* is written, and an App is returned only after the organization hop.
C4_FailingHopAborts ==
    [][\A c \in Callers :
          (~ignoreMissingApps /\ th'[c].op = "GetApp" /\ Stepped(c))
              => /\ (th[c].pc = "decode" /\ RequestFailure(th[c].resp))
                        => /\ ReturnedError(th'[c])
                           /\ th'[c].entityType = th[c].entityType
                           /\ cache' = cache
                 /\ (th'[c].entityType # th[c].entityType
                       /\ CanonTable[th'[c].guid].err)
                        => /\ ReturnedError(th'[c])
                           /\ HopIndex(th'[c].entityType) = HopIndex(th[c].entityType) + 1
                 /\ (th'[c].pc = "done" /\ th'[c].t = "app")
                        => th[c].entityType = S_organizations]_vars

\* the space request of a GetApp has failed and GetApp has returned the error
C4_Witness ==
    /\ ~ignoreMissingApps
    /\ \E c \in Callers :
          /\ th[c].op = "GetApp"
          /\ ReturnedError(th[c])
          /\ th[c].entityType = S_spaces
          /\ th[c].err = "status"

\* GetApp has returned an App with nothing in it but the guid it was given,
\* after an organization lookup on the empty guid
EmptyAppReturned(t) ==
    /\ t.pc = "done"
    /\ t.t = "app"
    /\ t.ret = [ZeroApp EXCEPT !.Guid = t.appGuid]
    /\ t.entityType = S_organizations
    /\ t.guid = EmptyString

\* C5: with IgnoreMissingApps true, when the app request of GetApp is
\* answered 404, GetApp does not fail: the app is replaced by an empty
\* record (which CachingBolt first saves), the space and organization
\* lookups on the empty guid fail and are replaced too, and GetApp returns
\* an App with empty Name, SpaceName and OrgName and IgnoredApp false.
C5_MissingAppGivesEmptyApp ==
    [][\A c \in Callers :
          (ignoreMissingApps /\ th[c].op = "GetApp" /\ th[c].entityType = S_apps
             /\ Stepped(c))
              => /\ (th[c].pc = "decode" /\ th[c].resp = RespStatus(404))
                        => IF backend = "bolt"
                           THEN th'[c].pc = "update" /\ IsSubstitute(th'[c].nv.v)
                           ELSE EmptyAppReturned(th'[c])
                 /\ (th[c].pc = "update" /\ IsSubstitute(th[c].nv.v))
                        => EmptyAppReturned(th'[c])]_vars

\* an app request was answered 404 and GetApp has returned the empty App
C5_Witness ==
    /\ ignoreMissingApps
    /\ backend = "bolt"
    /\ \E c \in Callers :
          /\ EmptyAppReturned(th[c])
          /\ th[c].appGuid = GuidABraced
          /\ makeBoltKey(S_apps, GuidA) \in DOMAIN cache
          /\ IsSubstitute(cache[makeBoltKey(S_apps, GuidA)])

\* C6 (as claimed): GetApp of a guid that does not parse as a UUID returns
\* an error and no App, for both values of IgnoreMissingApps, in CachingBolt
\* and in CachingMemory.
C6_InvalidGuidIsFatal ==
    \A c \in Callers :
        (/\ backend \in {"bolt", "memory"}
         /\ th[c].pc = "done"
         /\ th[c].op = "GetApp"
         /\ th[c].appGuid \in BadGuids)
            => ReturnedError(th[c])

\* C7 (as claimed): when a request of a hop of GetApp fails with a transport
\* error, a status other than 200 and 404, or a body that does not decode,
\* GetApp returns an error, also when IgnoreMissingApps is true.
C7_TransportErrorPropagates ==
    [][\A c \in Callers :
          (th[c].op = "GetApp" /\ th[c].pc = "decode" /\ TransportFailure(th[c].resp)
             /\ Stepped(c))
              => ReturnedError(th'[c])]_vars

\* C7 (amended): when a request of a hop of GetApp fails (a transport error,
\* any status other than 200, a body that does not decode), GetApp returns
\* that error if IgnoreMissingApps is false; if it is true the failure is
\* replaced by an empty record, the 404 and every other alike, and GetApp
\* never returns an error.
C7_TransportErrorPropagatesUnlessIgnored ==
    [][\A c \in Callers :
          (th'[c].op = "GetApp" /\ Stepped(c))
              => /\ (th[c].pc = "decode" /\ RequestFailure(th[c].resp))
                        => IF ignoreMissingApps
                           THEN th'[c].t \notin {"err", "panic"}
                           ELSE ReturnedError(th'[c]) /\ th'[c].err = ErrOf(th[c].resp)
                 /\ ignoreMissingApps => th'[c].t # "err"]_vars

\* with IgnoreMissingApps true, the space request of a GetApp has failed and
\* GetApp has returned an App without the space
C7_Witness ==
    /\ ignoreMissingApps
    /\ backend = "memory"
    /\ \E c \in Callers :
          /\ th[c].pc = "done"
          /\ th[c].t = "app"
          /\ th[c].ret.SpaceGuid = GuidSUpper
          /\ th[c].ret.SpaceName = EmptyString
          /\ th[c].ret.OrgName = EmptyString

\* C8 (as claimed): GetApp on CachingEmpty resolves the app by remote
\* requests and returns an assembled App or an error.
C8_DisabledGoesToRemote ==
    \A c \in Callers :
        (backend = "empty" /\ th[c].pc = "done" /\ th[c].op = "GetApp")
            => th[c].t \in {"app", "err"}

\* C8 (amended): on CachingEmpty every operation is a no-op: GetApp returns
\* no App and no error, FillCache returns nil, no request is sent and
\* nothing is ever stored.
C8_DisabledIsNoOp ==
    backend = "empty" =>
        /\ cache = << >>
        /\ \A c \in Callers :
              /\ th[c].pc \in {"start", "done"}
              /\ th[c].pc = "done"
                    => /\ th[c].ret = ZeroApp
                       /\ th[c].err = ""
                       /\ th[c].entityType = EmptyString
                       /\ th[c].t = (IF th[c].op = "GetApp" THEN "nil" ELSE "ok")

\* a GetApp and a FillCache on CachingEmpty have returned
C8_Witness ==
    /\ backend = "empty"
    /\ \E c, d \in Callers :
          /\ th[c].pc = "done" /\ th[c].op = "GetApp" /\ th[c].t = "nil"
          /\ th[d].pc = "done" /\ th[d].op = "FillCache" /\ th[d].t = "ok"

\* the callers inside a getEntity call or a save
InLookup(c) == th[c].pc \in {"view", "test", "lock", "read", "request", "decode", "update"}

\* C9: every key of the store is "<kind>/<guid>" and the path of every
\* single-entity request is "/v2/<kind>/<guid>", with kind one of apps,
\* spaces, organizations and guid a canonical lowercase hyphenated UUID; a
\* guid that does not parse gets no further than uuid.FromString.
C9_KeysAndPathsAreCanonical ==
    /\ DOMAIN cache \subseteq CanonicalKeys
    /\ \A c \in Callers :
          /\ InLookup(c)
                => /\ th[c].guid \in KnownGuids \ BadGuids
                   /\ KeyOf(c) \in CanonicalKeys
          /\ th[c].pc \in {"request", "decode"}
                => EntityPath(th[c].entityType, th[c].uuid) \in CanonicalPaths
          /\ th[c].stored \subseteq DOMAIN cache

\* a guid given in braces and upper case has reached the store under its
\* canonical form, the lookup of a space guid that is no UUID has been
\* given up, and a FillCache called beside that GetApp has written the app
\* the list names in upper case under the canonical key
C9_Witness ==
    /\ makeBoltKey(S_apps, GuidA) \in DOMAIN cache
    /\ \E c \in Callers :
          /\ th[c].pc = "done"
          /\ th[c].appGuid = GuidABraced
          /\ th[c].entityType = S_spaces
          /\ th[c].guid = BadShort
    /\ \E c \in Callers :
          /\ th[c].op = "FillCache"
          /\ th[c].pages > 0
          /\ makeBoltKey(S_apps, GuidA) \in th[c].stored

\* C10 (as claimed): every record written to a store, by a lookup that
\* fetched it or by FillCache, carries an expiry that is not the zero time
\* and lies between 0.75 and 1.25 times CacheInvalidateTTL after the time of
\* the write.
C10_ExpiryWithinJitterBounds ==
    [][\A k \in DOMAIN cache' :
          Written(k) => /\ cache'[k].TTL # ZeroTime
                        /\ InWindow(cache'[k].TTL - now)]_vars

\* the suffixes of the configured list that the name ends with
Matching(name, suffixes) == {i \in 1..Len(suffixes) : HasSuffix(name, suffixes[i])}

\* C11 (as claimed): normalising an app record removes from the end of its
\* name the longest configured suffix that the name ends with; a name ending
\* with no configured suffix, and a space's or organization's name, is left
\* unchanged.
C11_LongestSuffixStripped ==
    \A c \in Callers :
        norm[c].called =>
            LET m == Matching(norm[c].name, stripAppSuffixes)
            IN IF norm[c].entityType = S_apps /\ m # {}
               THEN \E i \in m :
                       /\ \A j \in m : Len(stripAppSuffixes[j]) <= Len(stripAppSuffixes[i])
                       /\ norm[c].out.v.Name \o stripAppSuffixes[i] = norm[c].name
               ELSE norm[c].out.v.Name = norm[c].name

\* C11 (amended): normalising an app record removes from the end of its name
\* the first suffix, in the configured order, that the name ends with
\* (exactly one suffix, once), and the record, if the store accepts it,
\* is stored with that name; a name ending with no configured suffix, and a
\* space's or organization's name, is left unchanged.
C11_FirstSuffixStripped ==
    \A c \in Callers :
        norm[c].called =>
            LET m == Matching(norm[c].name, stripAppSuffixes)
                key == makeBoltKey(norm[c].entityType, GuidA)
            IN /\ IF norm[c].entityType = S_apps /\ m # {}
                  THEN \E i \in m :
                          /\ \A j \in m : i <= j
                          /\ norm[c].out.v.Name \o stripAppSuffixes[i] = norm[c].name
                  ELSE norm[c].out.v.Name = norm[c].name
               /\ norm[c].err \in {"", "update"}
               /\ th[c].pc \in {"update", "done"}
               /\ th[c].pc = "done"
                     => IF norm[c].err = ""
                        THEN th[c].t = "ok" /\ cache[key].Name = norm[c].out.v.Name
                        ELSE th[c].t = "err" /\ cache = << >>

\* the name ends with both configured suffixes, the shorter listed first
C11_Witness ==
    /\ norm[1].called
    /\ norm[1].entityType = S_apps
    /\ stripAppSuffixes = << <<"v">>, <<"-","v">> >>
    /\ norm[1].name = <<"a","-","v">>
    /\ norm[1].out.v.Name = <<"a","-">>
    /\ th[1].pc = "done"
    /\ th[1].t = "ok"

\* k is the key of an app
IsAppKey(k) == Len(k) > Len(S_apps) /\ SubSeq(k, 1, Len(S_apps)) = S_apps

\* C12 (as claimed): in both storing backends, every write of an app record
\* stores it normalised, its name cut of the name suffix that is to be
\* stripped, so both backends store the same name for the same response.
C12_NormalisedOnEveryWrite ==
    [][\A k \in DOMAIN cache' :
          (Written(k) /\ IsAppKey(k)) => ~HasSuffix(cache'[k].Name, SuffixV)]_vars

\* the records of the remote that name an app with a space, a space with an
\* organization, and an organization
Resolvable(entityType) ==
    {e \in RemoteEntities(entityType) :
        /\ entityType = S_apps => ~CanonTable[e.SpaceGUID].err
        /\ entityType = S_spaces => ~CanonTable[e.OrganizationGUID].err}

\* the record e as the backend is to keep it: an app's name normalised
Normalised(entityType, e) ==
    [e EXCEPT !.Name = IF entityType = S_apps
                       THEN StripFirstSuffix(e.Name, stripAppSuffixes) ELSE e.Name]

\* records a and b differ in their expiry at most
SameRecord(a, b) == [a EXCEPT !.TTL = ZeroTime] = [b EXCEPT !.TTL = ZeroTime]

\* the step of caller c ends a hop of GetApp with the record e: GetApp goes
\* on to look up the space of the app e, or the organization of the space e,
\* or returns the App with the guid it was given, the name and space guid of
\* its app record, the name and organization guid of its space record and
\* the name of the organization e
Taken(c, e) ==
    CASE th[c].entityType = S_apps ->
            /\ th'[c].entityType = S_spaces
            /\ th'[c].guid = e.SpaceGUID
            /\ th'[c].pc = FirstPc
            /\ SameRecord(th'[c].app, e)
      [] th[c].entityType = S_spaces ->
            /\ th'[c].entityType = S_organizations
            /\ th'[c].guid = e.OrganizationGUID
            /\ th'[c].pc = FirstPc
            /\ SameRecord(th'[c].space, e)
            /\ th'[c].app = th[c].app
      [] OTHER ->
            /\ th'[c].pc = "done"
            /\ th'[c].t = "app"
            /\ th'[c].err = ""
            /\ th'[c].ret = [Guid |-> th[c].appGuid, Name |-> th[c].app.Name,
                              SpaceGuid |-> th[c].app.SpaceGUID,
                              SpaceName |-> th[c].space.Name,
                              OrgGuid |-> th[c].space.OrganizationGUID,
                              OrgName |-> e.Name,
                              IgnoredApp |-> appIsOptOut(th[c].app)]

\* C13 (as claimed): when the remote answers the request of a hop of
\* GetApp(A) with the record asked for (an app with its space guid S, the
\* space S with its organization guid O, the organization O with its name),
\* GetApp takes that record, an app's name normalised, and on a store that
\* holds the record from an earlier lookup it takes the stored one; so it
\* returns the App with guid A as given, the name and space guid of the app
\* record, the name and organization guid of the space record and the name
\* of the organization record, and no error.
C13_EndToEndAssembly ==
    [][\A c \in Callers :
          (th[c].op = "GetApp" /\ Stepped(c))
              => /\ (th[c].pc = "decode"
                       /\ \E e \in Resolvable(th[c].entityType) :
                              th[c].resp = RespEntity(e))
                        => LET e == Normalised(th[c].entityType, th[c].resp.entity.v)
                           IN IF backend = "bolt"
                              THEN /\ th'[c].pc = "update"
                                   /\ SameRecord(th'[c].nv.v, e)
                              ELSE Taken(c, e)
                 /\ (th[c].pc = "update" /\ cache' # cache
                       /\ \E e \in Resolvable(th[c].entityType) :
                              SameRecord(th[c].nv.v, Normalised(th[c].entityType, e)))
                        => Taken(c, th[c].nv.v)
                 /\ (AtExpiryTest(c) /\ th'[c].pc # "request"
                       /\ \E e \in Resolvable(th[c].entityType) :
                              SameRecord(FoundRecord(c), Normalised(th[c].entityType, e)))
                        => Taken(c, FoundRecord(c))]_vars

\* C14 (as claimed): a Close called right after an Open that returned an
\* error does not crash, and leaves no storage handle held, in every backend.
C14_CloseSafeAfterFailedOpen ==
    \A i \in 2..Len(lifecycle) :
        (lifecycle[i].op = "Close" /\ lifecycle[i - 1] = Called("Open", "err"))
            => /\ lifecycle[i].t = "ok"
               /\ i = Len(lifecycle) => appdb # "open"

\* C15 (as claimed): a getEntity call whose request is answered 200 with no
\* entity in the body returns an error: it does not crash and no record is
\* written, or about to be, for its key.
C15_AbsentEntityIsNotFound ==
    [][\A c \in Callers :
          (th[c].pc = "decode" /\ th[c].resp = RespNoEntity /\ Stepped(c))
              => /\ th'[c].t # "panic"
                 /\ th'[c].pc # "update"
                 /\ cache' = cache
                 /\ (~ignoreMissingApps /\ th[c].op = "GetApp")
                       => ReturnedError(th'[c])]_vars

\* C16 (as claimed): a getEntity call whose remote request fails writes
\* nothing, also when IgnoreMissingApps is true: the empty record put in
\* place of a missing app is not stored.
C16_FailedFetchStoresNothing ==
    [][\A c \in Callers :
          (/\ Stepped(c)
           /\ \/ th[c].pc = "decode" /\ RequestFailure(th[c].resp)
              \/ th[c].pc = "update" /\ IsSubstitute(th[c].nv.v))
              => cache' = cache]_vars

\* the callers between the map lookup and the map store of getEntity
InCritical == {c \in Callers : th[c].pc \in {"read", "request", "decode"}}

AllReturned == \A c \in Callers : th[c].pc = "done"

\* C17: under any interleaving of concurrent GetApp calls on one InMemory
\* backend, a caller that is about to read the map, has a request with the
\* remote, or is about to write the map holds the lock; so at most one caller
\* is between lookup and store and at most one request is in flight.
C17_MemoryMutualExclusion ==
    /\ \A c \in InCritical : mu = c
    /\ Cardinality(InCritical) <= 1
    /\ Cardinality({c \in Callers : th[c].pc = "request"}) <= 1

\* one caller's request is in flight while the other waits for the lock
C17_Witness ==
    /\ th[1].pc = "request"
    /\ th[2].pc = "lock"
    /\ mu = 1

\* C18: the lock is held only inside getEntity, between Lock and the return
\* (so it is released on every return path, never held between two hops of
\* GetApp and never acquired by its holder); some caller can always take a
\* step until all have returned; and, every request eventually returning,
\* every concurrent GetApp call eventually returns.
C18_MemoryLockLiveness ==
    /\ [](\A c \in Callers : th[c].pc \in {"start", "lock", "done"} => mu # c)
    /\ [](mu # 0 => (mu \in Callers /\ mu \in InCritical))
    /\ [](AllReturned \/ ENABLED (\E c \in Callers : ConcStep(c)))
    /\ <>AllReturned

\* both callers have returned, one with the error of a failed request, the
\* other with an App assembled from stored records
C18_Witness ==
    /\ AllReturned
    /\ mu = 0
    /\ th[1].t = "err"
    /\ th[1].err = "status"
    /\ th[2].t = "app"
    /\ th[2].ret.OrgName = NameOrg
    /\ cache \in WarmStores("memory")

\* C19: a getEntity call sends at most one remote request: the request is
\* sent from the lookup, for a guid that parsed, and once it has returned
\* the call sends no other (a failed request is not sent again) and does not
\* look up again; GetApp makes its getEntity calls in the order apps,
\* spaces, organizations, each once, so it sends at most three requests,
\* and none for a hop answered from the store.
C19_NoRetries ==
    [][\A c \in Callers :
          Stepped(c)
              => /\ th'[c].pc = "request"
                       => /\ th[c].pc \in {"view", "test", "read"}
                          /\ th'[c].entityType = th[c].entityType
                          /\ th'[c].guid = th[c].guid
                          /\ th'[c].guid \notin BadGuids
                 /\ th[c].pc = "request" => th'[c].pc = "decode"
                 /\ (th[c].pc \in {"decode", "update"}
                       /\ th'[c].pc \in {"view", "test", "lock", "read", "request",
                                         "decode"})
                       => th'[c].entityType # th[c].entityType
                 /\ (th[c].pc = "decode" /\ th'[c].pc = "update")
                       => th'[c].entityType = th[c].entityType
                 /\ (AtExpiryTest(c) /\ TTLBeforeNow(FoundTTL(c), now))
                       => th'[c].pc # "request"
                 /\ th'[c].op = "GetApp"
                       => HopIndex(th'[c].entityType) >= HopIndex(th[c].entityType)]_vars

\* a GetApp of three requests, the last of which failed
C19_Witness ==
    /\ backend = "memory"
    /\ ~ignoreMissingApps
    /\ \E c \in Callers :
          /\ th[c].pc = "done"
          /\ th[c].after = {}
          /\ th[c].entityType = S_organizations
          /\ th[c].err = "status"
          /\ \A k \in DOMAIN cache : cache[k].TTL > StartTime
          /\ Cardinality(DOMAIN cache) = 2

\* C20: FillCache first walks the pages of the app list: its first request
\* goes to the start of the list and each later one to the cursor of the
\* page before, until a page has no cursor; FillCache writes nothing and
\* makes no getEntity call before the walk has ended, and when a page
\* request fails it returns that error at once: this call has written
\* nothing, so the store is as it was when FillCache was called, but for
\* what other callers wrote meanwhile.
C20_PreloadEnumerationAllOrNothing ==
    /\ [][\A c \in Callers :
             /\ (th[c].pc = "start" /\ th'[c].op = "FillCache" /\ backend = "bolt")
                   => /\ cache' = cache
                      /\ th'[c].pc = "list"
                      /\ th'[c].url = PageURL(1)
                      /\ th'[c].pages = 0
             /\ (th[c].pc = "list" /\ Stepped(c))
                   => /\ cache' = cache
                      /\ th'[c].pc \in {"list", "fill", "done"}
                      /\ th'[c].stored = {}
                      /\ th'[c].entityType = EmptyString
                      /\ th'[c].pc = "list"
                            => /\ CursorPages(th[c].url) # {}
                               /\ \A lr \in CursorPages(th[c].url) : th'[c].url = lr.next
                               /\ th'[c].url # th[c].url
                               /\ th'[c].pages = th[c].pages + 1
                      /\ th'[c].pc = "fill" => th'[c].pages = th[c].pages + 1
                      /\ (th'[c].pc = "done" /\ th'[c].t = "ok")
                            => (th'[c].pages = th[c].pages + 1 /\ th[c].allApps = << >>)
                      /\ (th'[c].pc = "done" /\ th'[c].t # "ok")
                            => /\ th'[c].t = "err"
                               /\ th'[c].err \in {"request", "status", "json"}
                               /\ th'[c].pages = th[c].pages]_vars
    /\ [](\A c \in Callers :
             (th[c].op = "FillCache" /\ backend = "bolt"
                /\ (th[c].pc \notin {"list", "done"} \/ th[c].stored # {}))
                 => th[c].pages >= 1)

\* on a store that held records before, a FillCache called after another
\* call had returned has failed on its second page, after a first page that
\* listed an app
C20_Witness ==
    /\ backend = "bolt"
    /\ \E k \in DOMAIN cache : cache[k].TTL = StartTime
    /\ \E c \in Callers :
          /\ th[c].pc = "done"
          /\ th[c].op = "FillCache"
          /\ th[c].after # {}
          /\ th[c].t = "err"
          /\ th[c].err = "status"
          /\ th[c].pages = 1
          /\ th[c].stored = {}
====
